---------------------------- MODULE Spec2Model ----------------------------
(***************************************************************************)
(* Model of chrono_vehicle/utils/ChVehicleIrrApp.cpp: the Irrlicht vehicle *)
(* application that owns a chase camera (m_camera), forwards keyboard      *)
(* events to it (ChCameraEventReceiver::OnEvent), advances it by           *)
(* sub-stepping (Advance) and copies its output to the Irrlicht camera.    *)
(*                                                                         *)
(* Units.  Time is counted in ticks of half a millisecond, so that the     *)
(* default m_stepsize of 1e-3 is 2 ticks.  Lengths are counted in half     *)
(* metres, so that the constructor's chase height of 0.5 is 1.  A point    *)
(* is the pair <<x, z>>: x along the heading of the chassis, z up.         *)
(*                                                                         *)
(* The class utils::ChChaseCamera is not part of ChVehicleIrrApp.cpp; its  *)
(* operations (Initialize, Update, Zoom, Turn, SetState and the getters)   *)
(* are modelled from the written specification of the controller.          *)
(***************************************************************************)
EXTENDS Integers, Sequences, FiniteSets, TLC

VARIABLES
    pc,                 \* position of the single thread of control
    m_camera,           \* ChVehicleIrrApp::m_camera (utils::ChChaseCamera)
    m_camera_control,   \* TRUE once the event receiver is created and installed
    cam_pos,            \* local cam_pos of the constructor
    cam_target,         \* local cam_target of the constructor
    camera,             \* the Irrlicht camera scene node (position, target)
    chassis,            \* x coordinate of the tracked body (car.GetChassis()), at rest
    step,               \* argument of the Advance call in progress / last made
    t,                  \* local t of Advance
    lastOp,             \* the operation last entered, its input and its result
    calls,              \* calls made by that operation, in program order
    nKeyDown,           \* arrow key-down events delivered so far
    nCmd,               \* Zoom/Turn commands issued so far
    sub                 \* bookkeeping of the one-call / k-calls comparison

vars == <<pc, m_camera, m_camera_control, cam_pos, cam_target, camera, chassis,
          step, t, lastOp, calls, nKeyDown, nCmd, sub>>

-----------------------------------------------------------------------------
(* Bounds of the model *)

MaxStep == 4            \* largest duration handed to Advance, in ticks
MaxKeyDowns == 2        \* arrow key-down events delivered in one behaviour

(* Program constants *)

m_stepsize == 2         \* m_stepsize(1e-3): 2 ticks of half a millisecond
CtorDist == 12          \* Initialize(..., 6.0, ...): chase distance
CtorHeight == 1         \* Initialize(..., 0.5): chase height
CtorPt == <<0, 2>>      \* Initialize(ChVector<>(0, 0, 1), ...): point on chassis

(* Constants of the controller, from its specification *)

MinDist == 1            \* minimum positive chase distance
FullTurn == 4           \* orbital angle wraps at a full rotation
Gain == 8               \* relaxation rate of the smoothing (length per tick)
DriverEye == <<1, 3>>   \* car.GetLocalDriverCoordsys(): the driver's eye point

Modes == {"Chase", "Follow", "Track", "Inside"}

Min(a, b) == IF a < b THEN a ELSE b
Max(a, b) == IF a > b THEN a ELSE b
Abs(a) == IF a < 0 THEN -a ELSE a

-----------------------------------------------------------------------------
(* utils::ChChaseCamera, modelled from the specification of the controller *)

\* Parameters SetChaseCamera may be called with.
ChaseParams == {[pt |-> CtorPt, dist |-> CtorDist, height |-> CtorHeight],
                [pt |-> CtorPt, dist |-> 8, height |-> CtorHeight]}

\* The frame (x coordinate) the tracked body rests at.
ChassisRest == 0

\* Values an unconstructed field may hold.
Garbage == {<<0, 0>>, <<7, 7>>}

\* The camera object before Initialize: mode Chase, no intent, fields unset.
NewCamera(g) ==
    [initialized |-> FALSE, state |-> "Chase", loc |-> g, target |-> g,
     pt |-> g, driver |-> g, dist |-> 0, height |-> 0, angle |-> 0,
     zoomIntent |-> 0, turnIntent |-> 0]

\* Initialize: sets anchor, distance and height and resets the smoothing
\* state; the camera sits at its nominal place behind and above the anchor.
Initialize(cam, body, ptOnChassis, driverCsys, chaseDist, chaseHeight) ==
    [cam EXCEPT !.initialized = TRUE,
                !.pt = ptOnChassis,
                !.driver = driverCsys,
                !.dist = chaseDist,
                !.height = chaseHeight,
                !.angle = 0,
                !.zoomIntent = 0,
                !.turnIntent = 0,
                !.loc = <<body + ptOnChassis[1] - chaseDist,
                          ptOnChassis[2] + chaseHeight>>,
                !.target = <<body + ptOnChassis[1], ptOnChassis[2]>>]

GetCameraPos(cam) == cam.loc
GetTargetPos(cam) == cam.target
GetStateName(cam) == cam.state

SetState(cam, mode) == [cam EXCEPT !.state = mode]
Zoom(cam, dir) == [cam EXCEPT !.zoomIntent = @ + dir]
Turn(cam, dir) == [cam EXCEPT !.turnIntent = @ + dir]

\* One coordinate relaxes toward its raw value by at most gain * h.
Approach(cur, raw, gain, h) ==
    IF Abs(raw - cur) <= gain * h THEN raw
    ELSE IF raw > cur THEN cur + gain * h ELSE cur - gain * h

\* Update(h): one integration step of length h.  Chase and Follow differ in
\* their yaw coupling only, which the <<x, z>> plane does not show.
Update(cam, body, h) ==
    LET d == Max(MinDist, cam.dist - cam.zoomIntent)
        a == (cam.angle + cam.turnIntent) % FullTurn
        anchor == <<body + cam.pt[1], cam.pt[2]>>
        eye == <<body + cam.driver[1], cam.driver[2]>>
        rawLoc == CASE cam.state \in {"Chase", "Follow"} ->
                           <<anchor[1] - d, anchor[2] + cam.height>>
                    [] cam.state = "Track" -> cam.loc
                    [] cam.state = "Inside" -> eye
        rawTarget == IF cam.state = "Inside" THEN <<eye[1] + 1, eye[2]>>
                     ELSE anchor
        newLoc == IF cam.state = "Inside" THEN rawLoc
                  ELSE <<Approach(cam.loc[1], rawLoc[1], Gain, h),
                         Approach(cam.loc[2], rawLoc[2], Gain, h)>>
    IN  [cam EXCEPT !.dist = d, !.angle = a,
                    !.zoomIntent = 0, !.turnIntent = 0,
                    !.loc = newLoc, !.target = rawTarget]

-----------------------------------------------------------------------------
(* Records of what an operation did *)

NoEvent == [EventType |-> "none", Key |-> "none", PressedDown |-> FALSE]

Op(name, ev, s, ret) == [op |-> name, ev |-> ev, step |-> s, ret |-> ret]

\* A call on the camera: its integer argument (0 if it has none), its mode
\* argument ("none" if it has none), and whether the camera was initialized
\* when the call was made.
CamCall(f, arg, mode, cam) ==
    [f |-> f, arg |-> arg, mode |-> mode, init |-> cam.initialized]

\* A call on another object (the Irrlicht camera, the vehicle).
ExtCall(f) == [f |-> f, arg |-> 0, mode |-> "none", init |-> TRUE]


-----------------------------------------------------------------------------
(* ChVehicleIrrApp.cpp *)

\* No comparison made.
NoSub ==
    [S |-> 0, k |-> 0, one |-> [cam |-> NewCamera(<<0, 0>>), time |-> 0],
     many |-> [cam |-> NewCamera(<<0, 0>>), time |-> 0]]

\* (f32)x: the double x narrowed to single precision, that is rounded to 24
\* significant bits, ties to even.  x is an integer here.
RECURSIVE Quantum(_, _)
Quantum(a, q) == IF a < 16777216 * q THEN q ELSE Quantum(a, 2 * q)

F32(x) ==
    LET a == Abs(x)
        q == Quantum(a, 1)
        lo == (a \div q) * q
        r == a - lo
        up == (2 * r > q) \/ (2 * r = q /\ (lo \div q) % 2 = 1)
        m == IF up THEN lo + q ELSE lo
    IN  IF x < 0 THEN -m ELSE m

\* core::vector3df((f32)v.x, (f32)v.y, (f32)v.z)
Vector3df(v) == <<F32(v[1]), F32(v[2])>>

\* The Irrlicht events delivered to the receiver.
ArrowKeys == {"KEY_DOWN", "KEY_UP", "KEY_LEFT", "KEY_RIGHT"}
ModeKeys == {"KEY_KEY_1", "KEY_KEY_2", "KEY_KEY_3", "KEY_KEY_4"}
Keys == ArrowKeys \cup ModeKeys \cup {"KEY_KEY_V", "KEY_KEY_A"}

Events ==
    [EventType : {"EET_KEY_INPUT_EVENT"}, Key : Keys, PressedDown : BOOLEAN]
    \cup {[EventType |-> "EET_MOUSE_INPUT_EVENT", Key |-> "KEY_KEY_A",
           PressedDown |-> FALSE]}

Handled(f, arg, mode) == [f |-> f, arg |-> arg, mode |-> mode, ret |-> TRUE]
NotHandled == [f |-> "none", arg |-> 0, mode |-> "none", ret |-> FALSE]

\* The switch of the key-down branch: the call the key is mapped to.
KeyDownCmd(key) ==
    CASE key = "KEY_DOWN" -> Handled("Zoom", 1, "none")
      [] key = "KEY_UP" -> Handled("Zoom", 0 - 1, "none")
      [] key = "KEY_LEFT" -> Handled("Turn", 1, "none")
      [] key = "KEY_RIGHT" -> Handled("Turn", 0 - 1, "none")
      [] OTHER -> NotHandled

\* Variant of KeyUpCmd with the modes of keys 2 and 3 exchanged.
KeyUpCmd_Swapped(key) ==
    CASE key = "KEY_KEY_1" -> Handled("SetState", 0, "Chase")
      [] key = "KEY_KEY_2" -> Handled("SetState", 0, "Track")
      [] key = "KEY_KEY_3" -> Handled("SetState", 0, "Follow")
      [] key = "KEY_KEY_4" -> Handled("SetState", 0, "Inside")
      [] key = "KEY_KEY_V" -> Handled("LogConstraintViolations", 0, "none")
      [] OTHER -> NotHandled

\* The switch of the else (key-up) branch.
KeyUpCmd(key) ==
    CASE key = "KEY_KEY_1" -> Handled("SetState", 0, "Chase")
      [] key = "KEY_KEY_2" -> Handled("SetState", 0, "Follow")
      [] key = "KEY_KEY_3" -> Handled("SetState", 0, "Track")
      [] key = "KEY_KEY_4" -> Handled("SetState", 0, "Inside")
      [] key = "KEY_KEY_V" -> Handled("LogConstraintViolations", 0, "none")
      [] OTHER -> NotHandled

\* Variant of OnEventCmd that switches the mode on the key-down event.
OnEventCmd_ModeOnKeyDown(event) ==
    IF event.EventType # "EET_KEY_INPUT_EVENT" THEN NotHandled
    ELSE IF event.Key \in ModeKeys
         THEN IF event.PressedDown THEN KeyUpCmd(event.Key) ELSE NotHandled
         ELSE IF event.PressedDown THEN KeyDownCmd(event.Key)
              ELSE KeyUpCmd(event.Key)

\* Variant of OnEventCmd that does not test PressedDown for the arrow keys.
OnEventCmd_AnyEdge(event) ==
    IF event.EventType # "EET_KEY_INPUT_EVENT" THEN NotHandled
    ELSE IF event.Key \in ArrowKeys THEN KeyDownCmd(event.Key)
         ELSE IF event.PressedDown THEN NotHandled ELSE KeyUpCmd(event.Key)

\* ChCameraEventReceiver::OnEvent: the call the event is mapped to and the
\* value returned.
OnEventCmd(event) ==
    IF event.EventType # "EET_KEY_INPUT_EVENT" THEN NotHandled
    ELSE IF event.PressedDown THEN KeyDownCmd(event.Key)
         ELSE KeyUpCmd(event.Key)

\* The effect of that call on m_app->m_camera.
ApplyCmd(cam, c) ==
    CASE c.f = "Zoom" -> Zoom(cam, c.arg)
      [] c.f = "Turn" -> Turn(cam, c.arg)
      [] c.f = "SetState" -> SetState(cam, c.mode)
      [] OTHER -> cam

\* Variant of CtorSteps that reads the camera before initializing it.
CtorSteps_ReadFirst ==
    <<"ctor_read", "ctor_initialize", "ctor_receiver", "ctor_camera">>

\* The constructor body, in program order.
CtorSteps == <<"ctor_initialize", "ctor_read", "ctor_receiver", "ctor_camera">>

CtorPcs == {CtorSteps[i] : i \in DOMAIN CtorSteps}

CtorAfter(p) ==
    LET i == CHOOSE j \in DOMAIN CtorSteps : CtorSteps[j] = p
    IN  IF i = Len(CtorSteps) THEN "run" ELSE CtorSteps[i + 1]

\* The state on entry to the constructor body: the member initializers have
\* run, m_camera is constructed but not initialized.
Init ==
    /\ pc = CtorSteps[1]
    /\ \E g \in Garbage : m_camera = NewCamera(g)
    /\ m_camera_control = FALSE
    /\ cam_pos = <<0, 0>>
    /\ cam_target = <<0, 0>>
    /\ camera = [exists |-> FALSE, pos |-> <<0, 0>>, target |-> <<0, 0>>]
    /\ chassis = ChassisRest
    /\ step = 0
    /\ t = 0
    /\ lastOp = Op("ctor", NoEvent, 0, FALSE)
    /\ calls = <<>>
    /\ nKeyDown = 0
    /\ nCmd = 0
    /\ sub = NoSub

\* m_camera.Initialize(ChVector<>(0, 0, 1), car.GetLocalDriverCoordsys(), 6.0, 0.5);
Ctor_Initialize ==
    /\ pc = "ctor_initialize"
    /\ pc' = CtorAfter(pc)
    /\ m_camera' = Initialize(m_camera, chassis, CtorPt, DriverEye, CtorDist, CtorHeight)
    /\ calls' = Append(calls, CamCall("Initialize", 0, "none", m_camera'))
    /\ UNCHANGED <<m_camera_control, cam_pos, cam_target, camera, chassis, step, t,
                   lastOp, nKeyDown, nCmd, sub>>

\* cam_pos = m_camera.GetCameraPos(); cam_target = m_camera.GetTargetPos();
Ctor_ReadCamera ==
    /\ pc = "ctor_read"
    /\ pc' = CtorAfter(pc)
    /\ cam_pos' = GetCameraPos(m_camera)
    /\ cam_target' = GetTargetPos(m_camera)
    /\ calls' = calls \o <<CamCall("GetCameraPos", 0, "none", m_camera),
                           CamCall("GetTargetPos", 0, "none", m_camera)>>
    /\ UNCHANGED <<m_camera, m_camera_control, camera, chassis, step, t, lastOp,
                   nKeyDown, nCmd, sub>>

\* m_camera_control = new ChCameraEventReceiver(this); SetUserEventReceiver(...)
Ctor_InstallReceiver ==
    /\ pc = "ctor_receiver"
    /\ pc' = CtorAfter(pc)
    /\ m_camera_control' = TRUE
    /\ UNCHANGED <<m_camera, cam_pos, cam_target, camera, chassis, step, t, lastOp,
                   calls, nKeyDown, nCmd, sub>>

\* addCameraSceneNode(...); camera->setPosition(...); camera->setTarget(...)
Ctor_CreateCamera ==
    /\ pc = "ctor_camera"
    /\ pc' = CtorAfter(pc)
    /\ camera' = [exists |-> TRUE, pos |-> Vector3df(cam_pos),
                  target |-> Vector3df(cam_target)]
    /\ calls' = calls \o <<ExtCall("setPosition"), ExtCall("setTarget")>>
    /\ UNCHANGED <<m_camera, m_camera_control, cam_pos, cam_target, chassis, step, t,
                   lastOp, nKeyDown, nCmd, sub>>

IsArrowDown(event) ==
    /\ event.EventType = "EET_KEY_INPUT_EVENT"
    /\ event.PressedDown
    /\ event.Key \in ArrowKeys

\* bool ChCameraEventReceiver::OnEvent(const SEvent& event)
OnEvent(event) ==
    /\ pc = "run"
    /\ m_camera_control
    /\ IsArrowDown(event) => nKeyDown < MaxKeyDowns
    /\ LET c == OnEventCmd(event)
       IN  /\ m_camera' = ApplyCmd(m_camera, c)
           /\ calls' = IF c.f = "none" THEN <<>>
                       ELSE IF c.f = "LogConstraintViolations"
                            THEN <<ExtCall(c.f)>>
                            ELSE <<CamCall(c.f, c.arg, c.mode, m_camera)>>
           /\ lastOp' = Op("OnEvent", event, 0, c.ret)
           /\ nCmd' = IF c.f \in {"Zoom", "Turn"} THEN nCmd + 1 ELSE nCmd
    /\ nKeyDown' = IF IsArrowDown(event) THEN nKeyDown + 1 ELSE nKeyDown
    /\ UNCHANGED <<pc, m_camera_control, cam_pos, cam_target, camera, chassis,
                   step, t, sub>>

\* void ChVehicleIrrApp::SetChaseCamera(ptOnChassis, chaseDist, chaseHeight)
SetChaseCamera(p) ==
    /\ pc = "run"
    /\ m_camera' = Initialize(m_camera, chassis, p.pt, DriverEye, p.dist, p.height)
    /\ calls' = <<CamCall("Initialize", 0, "none", m_camera'),
                  CamCall("GetCameraPos", 0, "none", m_camera'),
                  CamCall("GetTargetPos", 0, "none", m_camera')>>
    /\ lastOp' = Op("SetChaseCamera", NoEvent, 0, FALSE)
    /\ UNCHANGED <<pc, m_camera_control, cam_pos, cam_target, camera, chassis,
                   step, t, nKeyDown, nCmd, sub>>

\* Variant of LoopCond that also iterates when t has reached step.
LoopCond_Inclusive(tt, s) == tt <= s

\* while (t < step)
LoopCond(tt, s) == tt < s

\* double h = std::min<>(m_stepsize, step - t);
SubStep(tt, s) == Min(m_stepsize, s - tt)

\* m_camera.Update(step): the increment handed to Update.
UpdateArg(s, h) == s

\* Variant of NextT that accumulates the whole step.
NextT_WholeStep(tt, s, h) == tt + s

\* t += h;
NextT(tt, s, h) == tt + h

\* void ChVehicleIrrApp::Advance(double step): entry, double t = 0;
AdvanceBegin(s) ==
    /\ pc = "run"
    /\ pc' = "adv_loop"
    /\ step' = s
    /\ t' = 0
    /\ lastOp' = Op("Advance", NoEvent, s, FALSE)
    /\ calls' = <<>>
    /\ UNCHANGED <<m_camera, m_camera_control, cam_pos, cam_target, camera, chassis,
                   nKeyDown, nCmd, sub>>

\* One iteration of the while loop.
AdvanceIter ==
    /\ pc = "adv_loop"
    /\ LoopCond(t, step)
    /\ LET h == SubStep(t, step)
       IN  /\ m_camera' = Update(m_camera, chassis, UpdateArg(step, h))
           /\ calls' = Append(calls, CamCall("Update", UpdateArg(step, h), "none", m_camera))
           /\ t' = NextT(t, step, h)
    /\ UNCHANGED <<pc, m_camera_control, cam_pos, cam_target, camera, chassis, step,
                   lastOp, nKeyDown, nCmd, sub>>

\* Loop exit: update the Irrlicht camera and return (the locals step and t end).
AdvanceRender ==
    /\ pc = "adv_loop"
    /\ ~LoopCond(t, step)
    /\ pc' = "run"
    /\ step' = 0
    /\ t' = 0
    /\ camera' = [camera EXCEPT !.pos = Vector3df(GetCameraPos(m_camera)),
                                !.target = Vector3df(GetTargetPos(m_camera))]
    /\ calls' = calls \o <<CamCall("GetCameraPos", 0, "none", m_camera),
                           CamCall("GetTargetPos", 0, "none", m_camera),
                           ExtCall("setPosition"),
                           ExtCall("setTarget")>>
    /\ UNCHANGED <<m_camera, m_camera_control, cam_pos, cam_target, chassis, lastOp,
                   nKeyDown, nCmd, sub>>

Steps == (0 - 1) .. MaxStep

Next ==
    \/ Ctor_Initialize
    \/ Ctor_ReadCamera
    \/ Ctor_InstallReceiver
    \/ Ctor_CreateCamera
    \/ \E event \in Events : OnEvent(event)
    \/ \E p \in ChaseParams : SetChaseCamera(p)
    \/ \E s \in Steps : AdvanceBegin(s)
    \/ AdvanceIter
    \/ AdvanceRender

Spec == Init /\ [][Next]_vars

\* The whole loop of Advance from local time tt: the camera it leaves and the
\* time handed to Update, added to acc.
RECURSIVE AdvanceLoop(_, _, _, _, _)
AdvanceLoop(cam, body, s, tt, acc) ==
    IF LoopCond(tt, s)
    THEN LET h == SubStep(tt, s)
         IN  AdvanceLoop(Update(cam, body, UpdateArg(s, h)), body, s,
                         NextT(tt, s, h), acc + UpdateArg(s, h))
    ELSE [cam |-> cam, time |-> acc]

\* k consecutive calls Advance(s).
RECURSIVE AdvanceTimes(_, _, _, _)
AdvanceTimes(r, body, s, k) ==
    IF k = 0 THEN r
    ELSE AdvanceTimes(AdvanceLoop(r.cam, body, s, 0, r.time), body, s, k - 1)

\* Camera states a comparison starts from: initialized, driven for a tick in
\* one mode, then switched to another, with or without a pending zoom.
StartCams ==
    {Zoom(SetState(Update(SetState(Initialize(NewCamera(<<0, 0>>), ChassisRest,
                                              p.pt, DriverEye, p.dist, p.height),
                                   m1),
                          ChassisRest, 1), m2), z) :
        p \in ChaseParams, m1 \in Modes, m2 \in Modes, z \in {0, 1}}

InitSub ==
    /\ pc = "run"
    /\ m_camera \in StartCams
    /\ m_camera_control = TRUE
    /\ cam_pos = <<0, 0>>
    /\ cam_target = <<0, 0>>
    /\ camera = [exists |-> TRUE, pos |-> Vector3df(GetCameraPos(m_camera)),
                 target |-> Vector3df(GetTargetPos(m_camera))]
    /\ chassis = ChassisRest
    /\ step = 0
    /\ t = 0
    /\ lastOp = Op("ctor", NoEvent, 0, FALSE)
    /\ calls = <<>>
    /\ nKeyDown = 0
    /\ nCmd = 0
    /\ sub = NoSub

\* From the same camera state: Advance(S) once, and Advance(S / k) k times.
Compare(S, k) ==
    /\ sub.k = 0
    /\ S % k = 0
    /\ LET start == [cam |-> m_camera, time |-> 0]
       IN  sub' = [S |-> S, k |-> k,
                   one |-> AdvanceTimes(start, chassis, S, 1),
                   many |-> AdvanceTimes(start, chassis, S \div k, k)]
    /\ UNCHANGED <<pc, m_camera, m_camera_control, cam_pos, cam_target, camera,
                   chassis, step, t, lastOp, calls, nKeyDown, nCmd>>

NextSub == \E S \in 1 .. MaxStep, k \in 1 .. MaxStep : Compare(S, k)

SpecSub == InitSub /\ [][NextSub]_vars

\* The loop of Advance is not preempted: once entered it keeps running.
LiveSpec == Spec /\ WF_vars(AdvanceIter) /\ WF_vars(AdvanceRender)

-----------------------------------------------------------------------------
(* Properties *)

\* The increments handed to Update by the operation last entered.
UpdateCalls == SelectSeq(calls, LAMBDA c : c.f = "Update")

RECURSIVE SumArgs(_)
SumArgs(q) == IF q = <<>> THEN 0 ELSE q[1].arg + SumArgs(Tail(q))

\* An Advance call has returned and nothing was done since.
AfterAdvance == pc = "run" /\ lastOp.op = "Advance"

\* ceil(s / m_stepsize), 0 for s <= 0.
CeilSteps(s) == IF s <= 0 THEN 0 ELSE (s + m_stepsize - 1) \div m_stepsize

\* The mode each mode key stands for.
KeyMode(k) ==
    CASE k = "KEY_KEY_1" -> "Chase"
      [] k = "KEY_KEY_2" -> "Follow"
      [] k = "KEY_KEY_3" -> "Track"
      [] k = "KEY_KEY_4" -> "Inside"

IsKeyEvent(o) == o.op = "OnEvent" /\ o.ev.EventType = "EET_KEY_INPUT_EVENT"

\* C1: after Advance(step) with step > 0 the time increments handed to the
\* camera's Update during the call add up to step exactly.
C1_ExactStep ==
    (AfterAdvance /\ lastOp.step > 0) => SumArgs(UpdateCalls) = lastOp.step

\* C2: from the same camera state and body frame, one call advancing by S
\* leaves the camera in the same state, with the same total time integrated,
\* as k consecutive calls advancing by S / k each.
C2_SplitExactness == sub.k > 0 => sub.one = sub.many

\* C3: every time increment handed to Update is greater than 0 and no
\* larger than the maximum sub-step m_stepsize.
C3_SubStepBound ==
    \A i \in DOMAIN calls :
        calls[i].f = "Update" => (calls[i].arg > 0 /\ calls[i].arg <= m_stepsize)

\* C4: Advance(0) never calls Update and leaves the camera position, target,
\* mode and pending zoom/turn intent as they were.
C4_ZeroStep ==
    [][(lastOp'.op = "Advance" /\ lastOp'.step = 0) =>
            /\ Len(SelectSeq(calls', LAMBDA c : c.f = "Update")) = 0
            /\ GetCameraPos(m_camera') = GetCameraPos(m_camera)
            /\ GetTargetPos(m_camera') = GetTargetPos(m_camera)
            /\ m_camera'.state = m_camera.state
            /\ m_camera'.zoomIntent = m_camera.zoomIntent
            /\ m_camera'.turnIntent = m_camera.turnIntent]_vars

C4_Witness ==
    /\ AfterAdvance
    /\ lastOp.step = 0
    /\ m_camera.zoomIntent # 0
    /\ m_camera.state = "Inside"
    /\ Len(calls) = 4

C6_ModeClosure ==
    [][/\ m_camera'.state \in Modes
       /\ GetStateName(m_camera') = m_camera'.state
       /\ IF \E i \in DOMAIN calls' : calls'[i].f = "SetState"
          THEN /\ IsKeyEvent(lastOp')
               /\ lastOp'.ev.Key \in ModeKeys
               /\ \A i \in DOMAIN calls' : calls'[i].mode = KeyMode(lastOp'.ev.Key)
               /\ m_camera'.state = KeyMode(lastOp'.ev.Key)
          ELSE m_camera'.state = m_camera.state]_vars

C6_Witness ==
    /\ IsKeyEvent(lastOp)
    /\ lastOp.ev.Key = "KEY_KEY_3"
    /\ m_camera.state = "Track"
    /\ nCmd > 0

\* C7 as stated: the key-down event of a mode key issues SetState with the
\* key's mode and switches the mode at once.
C7_SwitchOnKeyDown ==
    (IsKeyEvent(lastOp) /\ lastOp.ev.PressedDown /\ lastOp.ev.Key \in ModeKeys) =>
        /\ Len(calls) = 1
        /\ calls[1].f = "SetState"
        /\ calls[1].mode = KeyMode(lastOp.ev.Key)
        /\ m_camera.state = KeyMode(lastOp.ev.Key)

\* C7 amended: the key-up (release) event of a mode key issues SetState with
\* the key's mode, switches the mode at once and is reported handled; the
\* key-down event of a mode key issues no command and is reported not handled.
C7_SwitchOnKeyUp ==
    (IsKeyEvent(lastOp) /\ lastOp.ev.Key \in ModeKeys) =>
        IF lastOp.ev.PressedDown
        THEN Len(calls) = 0 /\ ~lastOp.ret
        ELSE /\ Len(calls) = 1
             /\ calls[1].f = "SetState"
             /\ calls[1].mode = KeyMode(lastOp.ev.Key)
             /\ m_camera.state = KeyMode(lastOp.ev.Key)
             /\ lastOp.ret

C7_Witness ==
    /\ IsKeyEvent(lastOp)
    /\ lastOp.ev.Key = "KEY_KEY_4"
    /\ ~lastOp.ev.PressedDown
    /\ m_camera.state = "Inside"

\* C8: a key-down event of an arrow key issues exactly one command with a
\* unit argument (Down: Zoom(+1), Up: Zoom(-1), Left: Turn(+1), Right:
\* Turn(-1)) and is reported handled; a key-up event of an arrow key issues
\* no command and is reported not handled; so the commands issued are as many
\* as the arrow key-down events delivered.
C8_EdgeTriggered ==
    /\ nCmd = nKeyDown
    /\ (IsKeyEvent(lastOp) /\ lastOp.ev.Key \in ArrowKeys) =>
          IF lastOp.ev.PressedDown
          THEN /\ Len(calls) = 1
               /\ calls[1].f = (IF lastOp.ev.Key \in {"KEY_DOWN", "KEY_UP"}
                                THEN "Zoom" ELSE "Turn")
               /\ calls[1].arg = (IF lastOp.ev.Key \in {"KEY_DOWN", "KEY_LEFT"}
                                  THEN 1 ELSE 0 - 1)
               /\ lastOp.ret
          ELSE Len(calls) = 0 /\ ~lastOp.ret

C8_Witness ==
    /\ IsKeyEvent(lastOp)
    /\ lastOp.ev.Key = "KEY_RIGHT"
    /\ lastOp.ev.PressedDown
    /\ nCmd = 2
    /\ m_camera.turnIntent = 0 - 1
    /\ m_camera.zoomIntent = 1

\* C9: the camera is initialized before the event receiver is installed and
\* before construction ends; every call that reaches the camera finds it
\* initialized; the position and target the constructor reads, and gives to
\* the Irrlicht camera, are those Initialize computed.
C9_InitializeFirst ==
    /\ m_camera_control => m_camera.initialized
    /\ pc \notin CtorPcs => m_camera.initialized
    /\ \A i \in DOMAIN calls : calls[i].init
    /\ (camera.exists \/ pc \notin CtorPcs) =>
          /\ cam_pos = <<ChassisRest + CtorPt[1] - CtorDist, CtorPt[2] + CtorHeight>>
          /\ cam_target = <<ChassisRest + CtorPt[1], CtorPt[2]>>
    /\ (pc = "run" /\ lastOp.op = "ctor") =>
          /\ GetCameraPos(m_camera) = cam_pos
          /\ GetTargetPos(m_camera) = cam_target

C9_Witness ==
    /\ pc = "run"
    /\ lastOp.op = "ctor"
    /\ m_camera_control
    /\ camera.exists
    /\ Len(calls) = 5

\* C10: between operations the Irrlicht camera's position and target equal
\* the controller's current output, also after SetChaseCamera; and an
\* Advance call writes them exactly once, after its last sub-step.
C10_RendererSync ==
    /\ pc = "run" =>
          /\ camera.pos = GetCameraPos(m_camera)
          /\ camera.target = GetTargetPos(m_camera)
    /\ AfterAdvance =>
          /\ Len(SelectSeq(calls, LAMBDA c : c.f = "setPosition")) = 1
          /\ Len(SelectSeq(calls, LAMBDA c : c.f = "setTarget")) = 1
          /\ calls[Len(calls)].f = "setTarget"
          /\ calls[Len(calls) - 1].f = "setPosition"

=============================================================================
